---- MODULE Spec2Model ----
(***************************************************************************)
(* The remediation orchestration engine of the repository:                 *)
(* ExecutionOrchestrator.executeOrchestration and what it calls            *)
(* (createBackup, createExecutionPhases, executePhaseWithRetry,            *)
(* executeWithTimeout, performFinalValidation, performRollback), over a    *)
(* small file system; repeated calls on one instance; the action of the    *)
(* 'fix' command; getExecutionHistory and its caller; ValidationEngine     *)
(* (addValidationCheck, removeValidationCheck, validate,                   *)
(* generateRecommendations); and the readers of the compiler's output:     *)
(* parseTypeScriptErrors, parseAndCategorizeErrors (categorizeError,       *)
(* calculatePriority) and the catch block of performFinalValidation.       *)
(***************************************************************************)
EXTENDS Integers, Sequences, FiniteSets, TLC

VARIABLES
  config,       \* OrchestrationConfig (the five flags the orchestrator reads)
  errors,       \* the AnalyzedError[] argument of executeOrchestration
  fs,           \* project files: path -> content, "absent" when there is none
  pre,          \* the content of every project file when the run started
  backupDir,    \* whether the directory this.backupPath exists
  backupFiles,  \* files of the backup directory: file name -> content
  pc,           \* where executeOrchestration stands
  phases,       \* const phases = this.createExecutionPhases(errors)
  idx,          \* position of the for-of loop over phases (1-based)
  attempt,      \* loop variable of executePhaseWithRetry
  abandoned,    \* phases with a fixer invocation that its timer left running
  calls,        \* per phase: how often phase.executeFunction was invoked
  fails,        \* per phase: how many of these invocations failed
  executionHistory, \* this.executionHistory
  validation,   \* what performFinalValidation returned ("none" before)
  thrown,       \* the error caught at line 99 ("none" while nothing is thrown)
  rollback,     \* performRollback: "none" (not run), "ok", "failed"
  restored,     \* project paths performRollback wrote
  result,       \* the value executeOrchestration returned ("none" before)
  run,          \* how many calls of executeOrchestration this instance has had
  cli,          \* where the action of the 'fix' command stands ("idle": not run)
  exitCode,     \* the exit code of the process
  returnedHistory, \* the array a caller got from getExecutionHistory
  checks,       \* ValidationEngine.checks
  vidx,         \* position of the for-of loop of validate (1-based)
  results,      \* const results of validate
  summary,      \* the ValidationSummary validate returned
  vpc,          \* validate: "idle" (not called), "running", "done"
  diagnostics,  \* the diagnostics the compiler reports
  output,       \* the compiler's output, a sequence of characters
  parsed,       \* what the function that read the output returned
  ppc           \* "idle", "reported" or "passed", then which function returned

vars == <<config, errors, fs, pre, backupDir, backupFiles, pc, phases, idx,
          attempt, abandoned, calls, fails, executionHistory, validation,
          thrown, rollback, restored, result, run, cli, exitCode,
          returnedHistory, checks, vidx, results, summary, vpc,
          diagnostics, output, parsed, ppc>>

\* the fields and locals of ValidationEngine
engineVars == <<checks, vidx, results, summary, vpc>>

\* the compiler's output and what the parsers make of it
parserVars == <<diagnostics, output, parsed, ppc>>

\* what no step of a single executeOrchestration call touches
outside == <<run, cli, exitCode, returnedHistory, engineVars, parserVars>>

----------------------------------------------------------------------------
(* Bounds of the model *)

\* longest errors argument
MaxErrors == 2

----------------------------------------------------------------------------
(* Paths and contents *)

RootA == [dir |-> "", base |-> "a.ts"]
SubA  == [dir |-> "src", base |-> "a.ts"]

\* project files a diagnostic can name, relative to process.cwd()
Paths == {RootA, SubA}

\* path.basename(file)
basename(p) == p.base

\* path.join(process.cwd(), backupFile)
joinCwd(name) == [dir |-> "", base |-> name]

\* names a file of the backup directory can have
BackupNames == {basename(p) : p \in Paths}

\* the content a project file has before any run: distinct per path
OriginalContent(p) == IF p = RootA THEN "original a.ts" ELSE "original src/a.ts"

\* what a fixer leaves in a file it rewrites
Fixed == "fixed"

Absent == "absent"

\* executeOrchestration has not returned
NoResult == [message |-> "none"]

\* fs.promises.access(filePath) succeeds
fileExists(files, p) == p \in DOMAIN files /\ files[p] # Absent

----------------------------------------------------------------------------
(* Errors and phases *)

RootCauses == {"SYNTAX", "IMPORT", "TYPE", "UNUSED"}

AnalyzedErrors == [file : Paths, rootCause : RootCauses]

RECURSIVE SeqsUpTo(_, _)
SeqsUpTo(S, n) ==
  IF n = 0 THEN {<<>>}
  ELSE LET shorter == SeqsUpTo(S, n - 1)
       IN  shorter \cup {Append(s, x) : s \in {t \in shorter : Len(t) = n - 1}, x \in S}

Configs == [backupEnabled : BOOLEAN, validationEnabled : BOOLEAN,
            rollbackOnFailure : BOOLEAN, continueOnValidationFailure : BOOLEAN,
            dryRun : BOOLEAN]

\* the constructor's defaults
DefaultConfig == [backupEnabled |-> TRUE, validationEnabled |-> TRUE,
                  rollbackOnFailure |-> TRUE, continueOnValidationFailure |-> FALSE,
                  dryRun |-> FALSE]

\* groupErrorsByRootCause(errors).get(cause), <<>> when the map has no such key
groupErrorsByRootCause(errs, cause) == SelectSeq(errs, LAMBDA e : e.rootCause = cause)

SyntaxPhase == [name |-> "Syntax Fixes", priority |-> 1, timeout |-> 300,
                retries |-> 2, rootCause |-> "SYNTAX"]
ImportPhase == [name |-> "Import Fixes", priority |-> 2, timeout |-> 180,
                retries |-> 1, rootCause |-> "IMPORT"]
TypePhase   == [name |-> "Type Fixes", priority |-> 3, timeout |-> 240,
                retries |-> 1, rootCause |-> "TYPE"]

PhaseNames == {SyntaxPhase.name, ImportPhase.name, TypePhase.name}

\* the comparator of line 156 with its operands swapped
RECURSIVE InsertByPriorityDescending(_, _)
InsertByPriorityDescending(sorted, ph) ==
  IF sorted = <<>> THEN <<ph>>
  ELSE IF ph.priority - sorted[Len(sorted)].priority <= 0
       THEN Append(sorted, ph)
       ELSE Append(InsertByPriorityDescending(SubSeq(sorted, 1, Len(sorted) - 1), ph),
                   sorted[Len(sorted)])

\* Array.prototype.sort((a, b) => a.priority - b.priority): stable
RECURSIVE InsertByPriority(_, _)
InsertByPriority(sorted, ph) ==
  IF sorted = <<>> THEN <<ph>>
  ELSE IF sorted[Len(sorted)].priority - ph.priority <= 0
       THEN Append(sorted, ph)
       ELSE Append(InsertByPriority(SubSeq(sorted, 1, Len(sorted) - 1), ph),
                   sorted[Len(sorted)])

RECURSIVE SortByPriority(_)
SortByPriority(s) ==
  IF s = <<>> THEN <<>>
  ELSE InsertByPriority(SortByPriority(SubSeq(s, 1, Len(s) - 1)), s[Len(s)])

createExecutionPhases(errs) ==
  LET p1 == IF Len(groupErrorsByRootCause(errs, "SYNTAX")) > 0 THEN <<SyntaxPhase>> ELSE <<>>
      p2 == IF Len(groupErrorsByRootCause(errs, "IMPORT")) > 0 THEN <<ImportPhase>> ELSE <<>>
      p3 == IF Len(groupErrorsByRootCause(errs, "TYPE")) > 0 THEN <<TypePhase>> ELSE <<>>
  IN  SortByPriority(p1 \o p2 \o p3)

\* [...new Set(errors.map(e => e.file))]: distinct files in first-seen order
RECURSIVE uniqueFiles(_)
uniqueFiles(errs) ==
  IF errs = <<>> THEN <<>>
  ELSE LET front == uniqueFiles(SubSeq(errs, 1, Len(errs) - 1))
           f == errs[Len(errs)].file
       IN  IF \E i \in 1..Len(front) : front[i] = f THEN front ELSE Append(front, f)

\* the files named by the errors of a phase
PhaseFiles(errs, ph) ==
  {groupErrorsByRootCause(errs, ph.rootCause)[i].file :
     i \in 1..Len(groupErrorsByRootCause(errs, ph.rootCause))}

ErrorFiles(errs) == {errs[i].file : i \in 1..Len(errs)}

----------------------------------------------------------------------------
(* ValidationEngine: its check list *)

\* the three checks of the field initializer
TypeScriptCompilation == [name |-> "TypeScript Compilation", type |-> "syntax", required |-> TRUE]
ESLintCheck == [name |-> "ESLint Check", type |-> "lint", required |-> FALSE]
BuildCheck == [name |-> "Build Check", type |-> "build", required |-> FALSE]

DefaultChecks == <<TypeScriptCompilation, ESLintCheck, BuildCheck>>

\* a summary that no validate call has produced yet
NoSummary == [totalChecks |-> -1]

\* a ValidationEngine after construction, validate not called
IdleEngine ==
  /\ checks = DefaultChecks
  /\ vidx = 1
  /\ results = <<>>
  /\ summary = NoSummary
  /\ vpc = "idle"

----------------------------------------------------------------------------
(* the compiler's output: characters *)

\* no array handed out by getExecutionHistory yet
NoArray == [ref |-> "none", elements |-> <<>>]

\* no compiler run yet
IdleParser ==
  /\ diagnostics = <<>>
  /\ output = <<>>
  /\ parsed = <<>>
  /\ ppc = "idle"

\* the decimal digits; the words "error" and "TS" stand as one character each,
\* every other character is itself
DigitChars == <<"0", "1", "2", "3", "4", "5", "6", "7", "8", "9">>

\* \d
isDigit(c) == \E k \in 1..Len(DigitChars) : DigitChars[k] = c

\* \s (of the white space characters, lines hold the blank)
isSpace(c) == c = " "

\* the character at position k of l, "" past the end
charAt(l, k) == IF k >= 1 /\ k <= Len(l) THEN l[k] ELSE ""

\* the first position from k on that holds no digit: where \d* stops
RECURSIVE skipDigits(_, _)
skipDigits(l, k) == IF isDigit(charAt(l, k)) THEN skipDigits(l, k + 1) ELSE k

\* the first position from k on that holds no blank: where \s* stops
RECURSIVE skipSpaces(_, _)
skipSpaces(l, k) == IF isSpace(charAt(l, k)) THEN skipSpaces(l, k + 1) ELSE k

\* String.prototype.trim
RECURSIVE trim(_)
trim(l) ==
  IF l = <<>> THEN l
  ELSE IF isSpace(Head(l)) THEN trim(Tail(l))
  ELSE IF isSpace(l[Len(l)]) THEN trim(SubSeq(l, 1, Len(l) - 1))
  ELSE l

\* parseInt of a run of digits
RECURSIVE parseInt(_)
parseInt(d) ==
  IF d = <<>> THEN 0
  ELSE 10 * parseInt(SubSeq(d, 1, Len(d) - 1))
         + ((CHOOSE k \in 1..Len(DigitChars) : DigitChars[k] = d[Len(d)]) - 1)

\* output.split('\n')
RECURSIVE split(_)
split(text) ==
  IF \E k \in 1..Len(text) : text[k] = "\n"
  THEN LET k == CHOOSE j \in 1..Len(text) :
                  /\ text[j] = "\n"
                  /\ \A i \in 1..(j - 1) : text[i] # "\n"
       IN  <<SubSeq(text, 1, k - 1)>> \o split(SubSeq(text, k + 1, Len(text)))
  ELSE <<text>>

\* line.includes(': error TS')
includesErrorTS(l) ==
  \E k \in 1..Len(l) :
    /\ charAt(l, k) = ":" /\ charAt(l, k + 1) = " " /\ charAt(l, k + 2) = "error"
    /\ charAt(l, k + 3) = " " /\ charAt(l, k + 4) = "TS"

\* where the parts of \((\d+),(\d+)\):\s*error\s+(TS\d+):\s*(.+)$ end when
\* the pattern is tried with its "(" at position k of l
positionsAt(l, k) ==
  LET lineEnd == skipDigits(l, k + 1)
      columnEnd == skipDigits(l, lineEnd + 1)
      errorAt == skipSpaces(l, columnEnd + 2)
      codeAt == skipSpaces(l, errorAt + 1)
      codeEnd == skipDigits(l, codeAt + 1)
  IN  [lineEnd |-> lineEnd, columnEnd |-> columnEnd, errorAt |-> errorAt,
       codeAt |-> codeAt, codeEnd |-> codeEnd,
       afterColon |-> skipSpaces(l, codeEnd + 1)]

\* the pattern from its "(" on matches l from position k to the end, its
\* parts ending at the positions p
matchesWith(l, k, p) ==
  /\ charAt(l, k) = "("
  /\ p.lineEnd > k + 1 /\ charAt(l, p.lineEnd) = ","
  /\ p.columnEnd > p.lineEnd + 1 /\ charAt(l, p.columnEnd) = ")"
  /\ charAt(l, p.columnEnd + 1) = ":"
  /\ charAt(l, p.errorAt) = "error"
  /\ p.codeAt > p.errorAt + 1 /\ charAt(l, p.codeAt) = "TS"
  /\ p.codeEnd > p.codeAt + 1 /\ charAt(l, p.codeEnd) = ":"
  /\ p.codeEnd < Len(l)

matchesAt(l, k) == matchesWith(l, k, positionsAt(l, k))

\* the match array [line, file, lineNum, column, code, message] when the "("
\* of the pattern is at k; \s* gives back a blank when nothing else is left
\* for the last group
groupsWith(l, k, p) ==
  <<l,
    SubSeq(l, 1, k - 1),
    SubSeq(l, k + 1, p.lineEnd - 1),
    SubSeq(l, p.lineEnd + 1, p.columnEnd - 1),
    SubSeq(l, p.codeAt, p.codeEnd - 1),
    SubSeq(l, IF p.afterColon <= Len(l) THEN p.afterColon ELSE Len(l), Len(l))>>

groupsAt(l, k) == groupsWith(l, k, positionsAt(l, k))

\* the first group (.+) is greedy: of the positions at where the rest of the
\* pattern matches, the last is taken; <<>> for null
matchAmong(l, at) ==
  IF at = {} THEN <<>>
  ELSE groupsAt(l, CHOOSE j \in at : \A i \in at : i <= j)

\* line.match(/^(.+)\((\d+),(\d+)\):\s*error\s+(TS\d+):\s*(.+)$/)
match(l) == matchAmong(l, {k \in 2..Len(l) : matchesAt(l, k)})

\* categorizeError(code, message) of parseAndCategorizeErrors
categorizeError(code, message) ==
  IF code = <<"TS", "1", "0", "0", "5">> THEN "syntax-comma-expected"
  ELSE IF code = <<"TS", "1", "0", "0", "3">> THEN "syntax-identifier-expected"
  ELSE IF code = <<"TS", "1", "1", "2", "8">> THEN "declaration-statement-expected"
  ELSE IF code = <<"TS", "1", "7", "0", "0", "2">> THEN "jsx-closing-tag-missing"
  ELSE IF code \in {<<"TS", "2", "3", "0", "7">>, <<"TS", "2", "3", "0", "5">>}
       THEN "import-resolution"
  ELSE IF code = <<"TS", "7", "0", "0", "6">> THEN "implicit-any"
  ELSE IF code = <<"TS", "2", "3", "3", "9">> THEN "property-missing"
  ELSE IF code = <<"TS", "6", "1", "3", "3">> THEN "unused-variable"
  ELSE "other"

\* calculatePriority(code, message) of parseAndCategorizeErrors
calculatePriority(code, message) ==
  IF code \in {<<"TS", "1", "0", "0", "5">>, <<"TS", "1", "0", "0", "3">>,
               <<"TS", "1", "1", "2", "8">>, <<"TS", "1", "3", "8", "1">>,
               <<"TS", "1", "3", "8", "2">>, <<"TS", "1", "7", "0", "0", "2">>} THEN 1
  ELSE IF code \in {<<"TS", "2", "3", "0", "7">>, <<"TS", "2", "3", "0", "5">>} THEN 2
  ELSE IF code \in {<<"TS", "7", "0", "0", "6">>, <<"TS", "2", "3", "3", "9">>,
                    <<"TS", "2", "7", "2", "2">>} THEN 3
  ELSE IF code \in {<<"TS", "6", "1", "3", "3">>} THEN 4
  ELSE 5

\* lines 85-99 of parseTypeScriptErrors for one line and its match array m:
\* the records pushed
pushedBy(l, m) ==
  IF includesErrorTS(l) /\ m # <<>>
  THEN <<[file |-> trim(m[2]), line |-> parseInt(m[3]), column |-> parseInt(m[4]),
          code |-> m[5], message |-> trim(m[6]), rawError |-> trim(l)]>>
  ELSE <<>>

\* the loop of parseTypeScriptErrors over lines
RECURSIVE parseLines(_)
parseLines(lines) ==
  IF lines = <<>> THEN <<>>
  ELSE pushedBy(Head(lines), match(Head(lines))) \o parseLines(Tail(lines))

\* parseTypeScriptErrors(output)
parseTypeScriptErrors(text) == parseLines(split(text))

\* line.includes(' - error TS')
includesDashErrorTS(l) ==
  \E k \in 1..Len(l) :
    /\ charAt(l, k) = " " /\ charAt(l, k + 1) = "-" /\ charAt(l, k + 2) = " "
    /\ charAt(l, k + 3) = "error" /\ charAt(l, k + 4) = " "
    /\ charAt(l, k + 5) = "TS"

\* the lines of the catch block of performFinalValidation that count as errors
errorLinesOf(text) == SelectSeq(split(text), LAMBDA l : includesDashErrorTS(l))

\* performFinalValidation, given whether execSync threw and the output the
\* thrown error carries
performFinalValidation(threw, text) ==
  IF ~threw
  THEN [success |-> TRUE, errorCount |-> 0]
  ELSE [success |-> Len(errorLinesOf(text)) = 0,
        errorCount |-> Len(errorLinesOf(text))]

\* lines 127-143 of parseAndCategorizeErrors for one line and its match array
\* m: the records pushed
categorizedBy(l, m) ==
  IF includesErrorTS(l) /\ m # <<>>
  THEN <<[file |-> trim(m[2]), line |-> parseInt(m[3]), column |-> parseInt(m[4]),
          code |-> m[5], message |-> trim(m[6]), rawError |-> trim(l),
          category |-> categorizeError(m[5], m[6]),
          priority |-> calculatePriority(m[5], m[6])]>>
  ELSE <<>>

\* the loop of parseAndCategorizeErrors over lines
RECURSIVE categorizeLines(_)
categorizeLines(lines) ==
  IF lines = <<>> THEN <<>>
  ELSE categorizedBy(Head(lines), match(Head(lines))) \o categorizeLines(Tail(lines))

\* parseAndCategorizeErrors(output): errors.sort((a, b) => a.priority - b.priority)
parseAndCategorizeErrors(text) == SortByPriority(categorizeLines(split(text)))

----------------------------------------------------------------------------
\* A fresh orchestrator and one call of executeOrchestration: any configuration;
\* src/a.ts present and a.ts present or not; any list of errors naming files
\* that exist, as the compiler's diagnostics do.
Init ==
  /\ config \in Configs
  /\ fs \in {f \in [Paths -> {Absent} \cup {OriginalContent(p) : p \in Paths}] :
               /\ f[RootA] \in {Absent, OriginalContent(RootA)}
               /\ f[SubA] = OriginalContent(SubA)}
  /\ errors \in SeqsUpTo([file : {p \in Paths : fileExists(fs, p)}, rootCause : RootCauses],
                         MaxErrors)
  /\ pre = fs
  /\ backupDir = FALSE
  /\ backupFiles = [n \in BackupNames |-> Absent]
  /\ pc = "start"
  /\ phases = <<>>
  /\ idx = 1
  /\ attempt = 1
  /\ abandoned = {}
  /\ calls = [n \in PhaseNames |-> 0]
  /\ fails = [n \in PhaseNames |-> 0]
  /\ executionHistory = <<>>
  /\ validation = "none"
  /\ thrown = "none"
  /\ rollback = "none"
  /\ restored = {}
  /\ result = NoResult
  /\ run = 1
  /\ cli = "idle"
  /\ exitCode = 0
  /\ returnedHistory = NoArray
  /\ IdleEngine
  /\ IdleParser

----------------------------------------------------------------------------
(* createBackup *)

\* the backup directory after the copy loop has handled files[1..k]
RECURSIVE copyFiles(_, _, _, _)
copyFiles(files, k, project, bf) ==
  IF k = 0 THEN bf
  ELSE LET done == copyFiles(files, k - 1, project, bf)
           backupFile == basename(files[k])
       IN  IF fileExists(project, files[k])
           THEN [done EXCEPT ![backupFile] = project[files[k]]]
           ELSE done

\* lines 257-276 of createBackup: mkdir, then the copy loop. failAt = 0: every
\* call succeeds; failAt = -1: mkdir throws; failAt = i > 0: copyFile of files[i]
\* throws, after files[1..i-1] were handled.
copyToBackup(files) ==
  \E failAt \in -1..Len(files) :
    /\ failAt > 0 => fileExists(fs, files[failAt])
    /\ backupDir' = (failAt # -1)
    /\ backupFiles' =
         IF failAt = -1 THEN backupFiles
         ELSE IF failAt = 0 THEN copyFiles(files, Len(files), fs, backupFiles)
         ELSE copyFiles(files, failAt - 1, fs, backupFiles)
    /\ thrown' = IF failAt = 0 THEN thrown ELSE "Backup Creation failed"
    /\ pc' = IF failAt = 0 THEN "plan" ELSE "catch"

\* createBackup without the early return of lines 250-255
createBackupIgnoringDryRun(files) == copyToBackup(files)

\* createBackup(errors), given files = [...new Set(errors.map(e => e.file))]
createBackup(files) ==
  IF config.dryRun
  THEN /\ pc' = "plan"
       /\ UNCHANGED <<backupDir, backupFiles, thrown>>
  ELSE copyToBackup(files)

\* executePhase('Backup Creation', () => this.createBackup(errors)), lines 64-66;
\* executePhase rethrows what createBackup throws
CreateBackup ==
  /\ pc = "start"
  /\ config.backupEnabled
  /\ createBackup(uniqueFiles(errors))
  /\ UNCHANGED <<config, errors, fs, pre, phases, idx, attempt, abandoned, calls,
                 fails, executionHistory, validation, rollback, restored, result>>
  /\ UNCHANGED outside

\* line 64 with backupEnabled = false
SkipBackup ==
  /\ pc = "start"
  /\ ~config.backupEnabled
  /\ pc' = "plan"
  /\ UNCHANGED <<config, errors, fs, pre, backupDir, backupFiles, phases, idx,
                 attempt, abandoned, calls, fails, executionHistory, validation,
                 thrown, rollback, restored, result>>
  /\ UNCHANGED outside

----------------------------------------------------------------------------
(* the phase loop *)

\* where executeOrchestration goes once the for-of loop stands at position i
AfterPhase(planned, i) == IF i <= Len(planned) THEN "loop" ELSE "finish"

\* line 69
PlanPhases ==
  /\ pc = "plan"
  /\ phases' = createExecutionPhases(errors)
  /\ idx' = 1
  /\ attempt' = 1
  /\ pc' = AfterPhase(phases', 1)
  /\ UNCHANGED <<config, errors, fs, pre, backupDir, backupFiles, abandoned, calls,
                 fails, executionHistory, validation, thrown, rollback, restored,
                 result>>
  /\ UNCHANGED outside


\* the phase the for-of loop stands at
CurrentPhase == phases[idx]

\* the project files a fixer of phase ph may rewrite: those its errors name
Writable(ph) == {f \in PhaseFiles(errors, ph) : fileExists(fs, f)}

\* the project files after a fixer rewrote the files W
written(project, W) == [p \in Paths |-> IF p \in W THEN Fixed ELSE project[p]]

\* Math.min(n, Math.floor(n * ratio)) of executeSyntaxFixes / executeImportFixes /
\* executeTypeFixes; the ratios are 0.8, 0.6, 0.7
simulatedFixedCount(ph, n) ==
  LET tenths == CASE ph.rootCause = "SYNTAX" -> 8
                  [] ph.rootCause = "IMPORT" -> 6
                  [] OTHER -> 7
      floor == (n * tenths) \div 10
  IN  IF n < floor THEN n ELSE floor

\* the ExecutionResult a fixer resolves with
FixerResult(ph, success) ==
  [phase |-> ph.name, success |-> success,
   message |-> IF config.dryRun THEN "Dry run" ELSE IF success THEN "Processed" ELSE "Not fixed",
   fixedCount |-> IF config.dryRun \/ ~success THEN 0
                  ELSE simulatedFixedCount(ph, Len(groupErrorsByRootCause(errors, ph.rootCause)))]

\* the result executePhaseWithRetry builds at lines 197-200 from a caught error
CaughtResult(ph) ==
  [phase |-> ph.name, success |-> FALSE, message |-> "Phase failed with error",
   fixedCount |-> 0]

\* lines 73-77: the result of executePhaseWithRetry is pushed, and a failure is
\* thrown unless continueOnValidationFailure
PhaseReturns(r) ==
  /\ executionHistory' = Append(executionHistory, r)
  /\ attempt' = 1
  /\ IF ~r.success /\ ~config.continueOnValidationFailure
     THEN /\ thrown' = "Phase failed"
          /\ pc' = "catch"
          /\ idx' = idx
     ELSE /\ thrown' = thrown
          /\ idx' = idx + 1
          /\ pc' = AfterPhase(phases, idx + 1)

\* the last-attempt test of lines 189 and 196 one attempt early
RetryOrReturnOneEarly(r) ==
  IF attempt >= CurrentPhase.retries
  THEN PhaseReturns(r)
  ELSE /\ attempt' = attempt + 1
       /\ pc' = "loop"
       /\ UNCHANGED <<executionHistory, thrown, idx>>

\* a failed attempt in executePhaseWithRetry: the last one returns its result
\* (lines 189-191, 196-200), an earlier one lets the loop of line 180 go round
RetryOrReturn(r) ==
  IF attempt = CurrentPhase.retries + 1
  THEN PhaseReturns(r)
  ELSE /\ attempt' = attempt + 1
       /\ pc' = "loop"
       /\ UNCHANGED <<executionHistory, thrown, idx>>

\* lines 181-184: executeWithTimeout starts the timer and calls
\* phase.executeFunction
InvokeFixer ==
  /\ pc = "loop"
  /\ idx <= Len(phases)
  /\ attempt <= CurrentPhase.retries + 1
  /\ calls' = [calls EXCEPT ![CurrentPhase.name] = @ + 1]
  /\ pc' = "await"
  /\ UNCHANGED <<config, errors, fs, pre, backupDir, backupFiles, phases, idx,
                 attempt, abandoned, fails, executionHistory, validation, thrown,
                 rollback, restored, result>>
  /\ UNCHANGED outside

\* FixerResolves with a loop that returns a result on the last attempt only:
\* lines 186-188 without the return
FixerResolvesWithoutEarlyReturn ==
  /\ pc = "await"
  /\ \E success \in BOOLEAN, W \in SUBSET Writable(CurrentPhase) :
       /\ config.dryRun => success /\ W = {}
       /\ fs' = written(fs, W)
       /\ RetryOrReturn(FixerResult(CurrentPhase, success))
       /\ fails' = IF success THEN fails
                   ELSE [fails EXCEPT ![CurrentPhase.name] = @ + 1]
  /\ UNCHANGED <<config, errors, pre, backupDir, backupFiles, phases, abandoned,
                 calls, validation, rollback, restored, result>>
  /\ UNCHANGED outside

\* the fixer's promise resolves before the timer fires, having rewritten the
\* files W; under dryRun the fixers return at once (lines 283, 304, 324)
FixerResolves ==
  /\ pc = "await"
  /\ \E success \in BOOLEAN, W \in SUBSET Writable(CurrentPhase) :
       /\ config.dryRun => success /\ W = {}
       /\ fs' = written(fs, W)
       /\ IF success
          THEN /\ PhaseReturns(FixerResult(CurrentPhase, TRUE))
               /\ fails' = fails
          ELSE /\ RetryOrReturn(FixerResult(CurrentPhase, FALSE))
               /\ fails' = [fails EXCEPT ![CurrentPhase.name] = @ + 1]
  /\ UNCHANGED <<config, errors, pre, backupDir, backupFiles, phases, abandoned,
                 calls, validation, rollback, restored, result>>
  /\ UNCHANGED outside

\* the fixer's promise rejects before the timer fires (lines 195-202)
FixerRejects ==
  /\ pc = "await"
  /\ ~config.dryRun
  /\ \E W \in SUBSET Writable(CurrentPhase) : fs' = written(fs, W)
  /\ fails' = [fails EXCEPT ![CurrentPhase.name] = @ + 1]
  /\ RetryOrReturn(CaughtResult(CurrentPhase))
  /\ UNCHANGED <<config, errors, pre, backupDir, backupFiles, phases, abandoned,
                 calls, validation, rollback, restored, result>>
  /\ UNCHANGED outside

\* lines 216-218 with a timer callback that does not reject the promise
\* executePhaseWithRetry awaits
TimerFiresWithoutReject ==
  /\ pc = "await"
  /\ ~config.dryRun
  /\ abandoned' = abandoned \cup {CurrentPhase.name}
  /\ UNCHANGED <<config, errors, fs, pre, backupDir, backupFiles, pc, phases, idx,
                 attempt, calls, fails, executionHistory, validation, thrown,
                 rollback, restored, result>>
  /\ UNCHANGED outside

\* the timer of executeWithTimeout fires first (lines 216-218): the promise
\* rejects, and the fixer's own invocation is left running
TimerFires ==
  /\ pc = "await"
  /\ ~config.dryRun
  /\ \E W \in SUBSET Writable(CurrentPhase) : fs' = written(fs, W)
  /\ fails' = [fails EXCEPT ![CurrentPhase.name] = @ + 1]
  /\ abandoned' = abandoned \cup {CurrentPhase.name}
  /\ RetryOrReturn(CaughtResult(CurrentPhase))
  /\ UNCHANGED <<config, errors, pre, backupDir, backupFiles, phases, calls,
                 validation, rollback, restored, result>>
  /\ UNCHANGED outside

\* the phase whose name is n
PhaseNamed(n) ==
  CASE n = SyntaxPhase.name -> SyntaxPhase
    [] n = ImportPhase.name -> ImportPhase
    [] OTHER -> TypePhase

\* a fixer invocation left running by its timer rewrites files of its phase;
\* executeWithTimeout neither cancels nor awaits it, so it may do so at any
\* later time, also after executeOrchestration has returned
AbandonedFixerWrites ==
  /\ \E n \in abandoned :
       \E W \in SUBSET Writable(PhaseNamed(n)) :
         /\ W # {}
         /\ fs' = written(fs, W)
  /\ UNCHANGED <<config, errors, pre, backupDir, backupFiles, pc, phases, idx,
                 attempt, abandoned, calls, fails, executionHistory, validation,
                 thrown, rollback, restored, result>>
  /\ UNCHANGED outside

----------------------------------------------------------------------------
(* final validation and the returned value *)

RECURSIVE totalFixed(_)
totalFixed(h) ==
  IF h = <<>> THEN 0 ELSE totalFixed(SubSeq(h, 1, Len(h) - 1)) + h[Len(h)].fixedCount

\* the value returned at lines 88-97
SuccessResult(h) ==
  [success |-> TRUE, message |-> "Orchestration completed successfully",
   fixedCount |-> totalFixed(h), phases |-> Len(h)]

\* lines 80-83 as they would be if a failing final validation were thrown
\* into the catch block of line 99
FinalValidationThrowing ==
  /\ pc = "finish"
  /\ config.validationEnabled
  /\ \E v \in {"pass", "fail"} :
       /\ validation' = v
       /\ IF v = "pass"
          THEN /\ result' = SuccessResult(executionHistory)
               /\ pc' = "done"
               /\ thrown' = thrown
          ELSE /\ result' = result
               /\ pc' = "catch"
               /\ thrown' = "Final Validation failed"
  /\ UNCHANGED <<config, errors, fs, pre, backupDir, backupFiles, phases, idx,
                 attempt, abandoned, calls, fails, executionHistory,
                 rollback, restored>>
  /\ UNCHANGED outside

\* lines 80-97 with validationEnabled: executePhase('Final Validation', () =>
\* this.performFinalValidation()), where the compiler passes or reports errors
\* and performFinalValidation returns a result either way; the result is not
\* kept, and the success value is returned
FinalValidation ==
  /\ pc = "finish"
  /\ config.validationEnabled
  /\ \E v \in {"pass", "fail"} : validation' = v
  /\ result' = SuccessResult(executionHistory)
  /\ pc' = "done"
  /\ UNCHANGED <<config, errors, fs, pre, backupDir, backupFiles, phases, idx,
                 attempt, abandoned, calls, fails, executionHistory, thrown,
                 rollback, restored>>
  /\ UNCHANGED outside

\* lines 80-97 with validationEnabled = false
Complete ==
  /\ pc = "finish"
  /\ ~config.validationEnabled
  /\ result' = SuccessResult(executionHistory)
  /\ pc' = "done"
  /\ UNCHANGED <<config, errors, fs, pre, backupDir, backupFiles, phases, idx,
                 attempt, abandoned, calls, fails, executionHistory, validation,
                 thrown, rollback, restored>>
  /\ UNCHANGED outside

\* the value returned at lines 106-110 for the caught error
FailureResult(error) == [success |-> FALSE, message |-> error]

\* the project paths performRollback copies a backup file to (lines 379-385)
RestoreTargets ==
  {joinCwd(n) : n \in {m \in BackupNames : backupFiles[m] # Absent}}
    \cap {p \in Paths : fileExists(fs, p)}

\* the project files after performRollback copied to the targets R
restoredFiles(project, R) ==
  [p \in Paths |-> IF p \in R THEN backupFiles[basename(p)] ELSE project[p]]

\* lines 99-111 with rollbackOnFailure and backupEnabled: performRollback, whose
\* errors are caught and logged at lines 390-392, then the failure result
CatchWithRollback ==
  /\ pc = "catch"
  /\ config.rollbackOnFailure /\ config.backupEnabled
  /\ IF backupDir
     THEN \E R \in SUBSET RestoreTargets :
            /\ fs' = restoredFiles(fs, R)
            /\ restored' = R
            /\ rollback' = IF R = RestoreTargets THEN "ok" ELSE "failed"
     ELSE /\ rollback' = "ok"
          /\ UNCHANGED <<fs, restored>>
  /\ result' = FailureResult(thrown)
  /\ pc' = "done"
  /\ UNCHANGED <<config, errors, pre, backupDir, backupFiles, phases, idx, attempt,
                 abandoned, calls, fails, executionHistory, validation, thrown>>
  /\ UNCHANGED outside

\* lines 99-111 without rollback
CatchWithoutRollback ==
  /\ pc = "catch"
  /\ ~(config.rollbackOnFailure /\ config.backupEnabled)
  /\ result' = FailureResult(thrown)
  /\ pc' = "done"
  /\ UNCHANGED <<config, errors, fs, pre, backupDir, backupFiles, phases, idx,
                 attempt, abandoned, calls, fails, executionHistory, validation,
                 thrown, rollback, restored>>
  /\ UNCHANGED outside

----------------------------------------------------------------------------
Next ==
  \/ CreateBackup
  \/ SkipBackup
  \/ PlanPhases
  \/ InvokeFixer
  \/ FixerResolves
  \/ FixerRejects
  \/ TimerFires
  \/ AbandonedFixerWrites
  \/ FinalValidation
  \/ Complete
  \/ CatchWithRollback
  \/ CatchWithoutRollback

Spec == Init /\ [][Next]_vars

----------------------------------------------------------------------------
(* several calls on one orchestrator instance *)

\* most calls of executeOrchestration on one instance
MaxRuns == 2

\* every flag of OrchestrationConfig off
BareConfig == [backupEnabled |-> FALSE, validationEnabled |-> FALSE,
               rollbackOnFailure |-> FALSE, continueOnValidationFailure |-> FALSE,
               dryRun |-> FALSE]

\* a further call executeOrchestration(errs) on the same instance, after the
\* previous call has returned: the locals of lines 57-112 start afresh, while
\* this.config, this.executionHistory (line 36, never cleared) and
\* this.backupPath (set once at line 52) are those of the instance; fixer
\* invocations left running by a timer are still running
CallAgain ==
  /\ pc = "done"
  /\ cli = "idle"
  /\ run < MaxRuns
  /\ run' = run + 1
  /\ errors' \in SeqsUpTo([file : {p \in Paths : fileExists(fs, p)}, rootCause : RootCauses],
                          MaxErrors)
  /\ pre' = fs
  /\ pc' = "start"
  /\ phases' = <<>>
  /\ idx' = 1
  /\ attempt' = 1
  /\ calls' = [n \in PhaseNames |-> 0]
  /\ fails' = [n \in PhaseNames |-> 0]
  /\ validation' = "none"
  /\ thrown' = "none"
  /\ rollback' = "none"
  /\ restored' = {}
  /\ result' = NoResult
  /\ UNCHANGED <<config, fs, backupDir, backupFiles, abandoned, executionHistory,
                 cli, exitCode>>
  /\ UNCHANGED <<returnedHistory, engineVars, parserVars>>

\* an instance built with the defaults or with every flag off, src/a.ts and
\* a.ts present
InitRuns ==
  /\ Init
  /\ config \in {DefaultConfig, BareConfig}
  /\ fileExists(fs, RootA)

NextRuns ==
  \/ CreateBackup
  \/ SkipBackup
  \/ PlanPhases
  \/ InvokeFixer
  \/ FixerResolves
  \/ FixerRejects
  \/ TimerFires
  \/ AbandonedFixerWrites
  \/ FinalValidation
  \/ Complete
  \/ CatchWithRollback
  \/ CatchWithoutRollback
  \/ CallAgain

SpecRuns == InitRuns /\ [][NextRuns]_vars

----------------------------------------------------------------------------
(* the action of the 'fix' command *)

\* the configurations the 'fix' command builds at lines 843-848: dryRun and
\* backupEnabled from the options, validationEnabled: true, the rest defaults
FixConfigs ==
  {c \in Configs : /\ c.validationEnabled
                    /\ c.rollbackOnFailure = DefaultConfig.rollbackOnFailure
                    /\ c.continueOnValidationFailure = DefaultConfig.continueOnValidationFailure}

\* the command is started: no orchestrator exists yet; errors stands for what
\* analyzer.analyzeErrors() is going to report
InitFix ==
  /\ config \in FixConfigs
  /\ fs \in {f \in [Paths -> {Absent} \cup {OriginalContent(p) : p \in Paths}] :
               /\ f[RootA] \in {Absent, OriginalContent(RootA)}
               /\ f[SubA] = OriginalContent(SubA)}
  /\ errors \in SeqsUpTo([file : {p \in Paths : fileExists(fs, p)}, rootCause : RootCauses],
                         MaxErrors)
  /\ pre = fs
  /\ backupDir = FALSE
  /\ backupFiles = [n \in BackupNames |-> Absent]
  /\ pc = "unbuilt"
  /\ phases = <<>>
  /\ idx = 1
  /\ attempt = 1
  /\ abandoned = {}
  /\ calls = [n \in PhaseNames |-> 0]
  /\ fails = [n \in PhaseNames |-> 0]
  /\ executionHistory = <<>>
  /\ validation = "none"
  /\ thrown = "none"
  /\ rollback = "none"
  /\ restored = {}
  /\ result = NoResult
  /\ run = 0
  /\ cli = "analyze"
  /\ exitCode = 0
  /\ returnedHistory = NoArray
  /\ IdleEngine
  /\ IdleParser

\* lines 833-834 throw (new ErrorAnalyzer() or analyzeErrors()): the catch block
\* of lines 871-874 calls process.exit(1)
FixAnalysisThrows ==
  /\ cli = "analyze"
  /\ cli' = "exited"
  /\ exitCode' = 1
  /\ UNCHANGED <<config, errors, fs, pre, backupDir, backupFiles, pc, phases, idx,
                 attempt, abandoned, calls, fails, executionHistory, validation,
                 thrown, rollback, restored, result, run>>
  /\ UNCHANGED <<returnedHistory, engineVars, parserVars>>

\* lines 836-839: analysis.totalErrors === 0, the action returns
FixNoErrors ==
  /\ cli = "analyze"
  /\ Len(errors) = 0
  /\ cli' = "exited"
  /\ UNCHANGED <<config, errors, fs, pre, backupDir, backupFiles, pc, phases, idx,
                 attempt, abandoned, calls, fails, executionHistory, validation,
                 thrown, rollback, restored, result, run, exitCode>>
  /\ UNCHANGED <<returnedHistory, engineVars, parserVars>>

\* lines 842-853: the orchestrator is built and executeOrchestration is called
FixOrchestrates ==
  /\ cli = "analyze"
  /\ Len(errors) > 0
  /\ cli' = "orchestrate"
  /\ pc' = "start"
  /\ run' = 1
  /\ UNCHANGED <<config, errors, fs, pre, backupDir, backupFiles, phases, idx,
                 attempt, abandoned, calls, fails, executionHistory, validation,
                 thrown, rollback, restored, result, exitCode>>
  /\ UNCHANGED <<returnedHistory, engineVars, parserVars>>

\* lines 855-869: executeOrchestration has returned fixResult; unless dryRun,
\* validator.validate() runs and its summary is logged; fixResult.message is
\* logged and the action returns, whatever fixResult.success is
FixCompletes ==
  /\ cli = "orchestrate"
  /\ pc = "done"
  /\ cli' = "exited"
  /\ UNCHANGED <<config, errors, fs, pre, backupDir, backupFiles, pc, phases, idx,
                 attempt, abandoned, calls, fails, executionHistory, validation,
                 thrown, rollback, restored, result, run, exitCode>>
  /\ UNCHANGED <<returnedHistory, engineVars, parserVars>>

NextFix ==
  \/ FixAnalysisThrows
  \/ FixNoErrors
  \/ FixOrchestrates
  \/ CreateBackup
  \/ SkipBackup
  \/ PlanPhases
  \/ InvokeFixer
  \/ FixerResolves
  \/ FixerRejects
  \/ TimerFires
  \/ AbandonedFixerWrites
  \/ FinalValidation
  \/ CatchWithRollback
  \/ CatchWithoutRollback
  \/ FixCompletes

SpecFix == InitFix /\ [][NextFix]_vars

----------------------------------------------------------------------------
(* fixers that never settle *)

\* a call that is not a dry run (under dryRun the fixers return at once)
InitHung ==
  /\ Init
  /\ ~config.dryRun

\* executeOrchestration with fixers whose promises never settle: an attempt
\* ends only by the timer of executeWithTimeout
NextHung ==
  \/ CreateBackup
  \/ SkipBackup
  \/ PlanPhases
  \/ InvokeFixer
  \/ TimerFires
  \/ AbandonedFixerWrites
  \/ FinalValidation
  \/ Complete
  \/ CatchWithRollback
  \/ CatchWithoutRollback

\* a timer that was set fires (setTimeout, line 216), and the loop of
\* executePhaseWithRetry, once its await is over, goes on to its next attempt
SpecHung ==
  /\ InitHung
  /\ [][NextHung]_vars
  /\ WF_vars(TimerFires)
  /\ WF_vars(InvokeFixer)

----------------------------------------------------------------------------
(* ValidationEngine: addValidationCheck, removeValidationCheck, validate *)

\* longest check list
MaxChecks == 4

\* checks a caller adds with addValidationCheck
CustomChecks ==
  [name : {"Unit Tests", "ESLint Check"}, type : {"test", "lint"}, required : BOOLEAN]

\* names a caller passes to removeValidationCheck
CheckNames == {"TypeScript Compilation", "ESLint Check", "Build Check", "Unit Tests"}

\* the state of ExecutionOrchestrator and of the 'fix' command
orchestratorVars ==
  <<config, errors, fs, pre, backupDir, backupFiles, pc, phases, idx, attempt,
    abandoned, calls, fails, executionHistory, validation, thrown, rollback,
    restored, result, run, cli, exitCode>>

\* what no method of ValidationEngine touches
outsideEngine == <<orchestratorVars, returnedHistory, parserVars>>

\* this.checks.findIndex(check => check.name === name), 1-based, 0 for none
findIndex(list, name) ==
  IF \E i \in 1..Len(list) : list[i].name = name
  THEN CHOOSE i \in 1..Len(list) :
         /\ list[i].name = name
         /\ \A j \in 1..(i - 1) : list[j].name # name
  ELSE 0

\* list.splice(index, 1)
splice(list, index) == SubSeq(list, 1, index - 1) \o SubSeq(list, index + 1, Len(list))

\* addValidationCheck(check), between validate calls; the summary of an
\* earlier validate call is the caller's and is forgotten here
AddValidationCheck ==
  /\ vpc # "running"
  /\ Len(checks) < MaxChecks
  /\ \E check \in CustomChecks : checks' = Append(checks, check)
  /\ vidx' = 1
  /\ results' = <<>>
  /\ summary' = NoSummary
  /\ vpc' = "idle"
  /\ UNCHANGED outsideEngine

\* removeValidationCheck(name), between validate calls
RemoveValidationCheck ==
  /\ vpc # "running"
  /\ \E name \in CheckNames :
       checks' = IF findIndex(checks, name) # 0
                 THEN splice(checks, findIndex(checks, name))
                 ELSE checks
  /\ vidx' = 1
  /\ results' = <<>>
  /\ summary' = NoSummary
  /\ vpc' = "idle"
  /\ UNCHANGED outsideEngine

\* line 494 without its test of check.required
stopsValidationOnAnyFailure(r) == ~r.success

\* line 494: !result.success && check.required
stopsValidation(r) == ~r.success /\ r.check.required

\* the predicate of line 503 without its test of r.check.required
passedOnly(r) == r.success

\* the predicate of line 503: r.success || !r.check.required
passedOrOptional(r) == r.success \/ ~r.check.required

\* res.every(passedOrOptional)
RECURSIVE every(_)
every(res) ==
  IF res = <<>> THEN TRUE
  ELSE IF passedOrOptional(Head(res)) THEN every(Tail(res)) ELSE FALSE

\* the recommendation strings of generateRecommendations, by what they start
\* with
FixSyntaxFirst == "Fix TypeScript syntax errors first"
RunESLintFix == "Run ESLint with --fix flag"
BuildIssues == "Build issues may indicate missing dependencies"
AllChecksPassed == "All validation checks passed"

\* the switch of lines 675-691 for one result: what is pushed
recommendedFor(r) ==
  IF r.success THEN <<>>
  ELSE CASE r.check.type = "syntax" -> <<FixSyntaxFirst>>
         [] r.check.type = "lint" -> <<RunESLintFix>>
         [] r.check.type = "build" -> <<BuildIssues>>
         [] OTHER -> <<>>

\* the loop of lines 673-693
RECURSIVE recommendedForAll(_)
recommendedForAll(res) ==
  IF res = <<>> THEN <<>>
  ELSE recommendedFor(Head(res)) \o recommendedForAll(Tail(res))

\* generateRecommendations(results)
generateRecommendations(res) ==
  IF Len(recommendedForAll(res)) = 0
  THEN <<AllChecksPassed>>
  ELSE recommendedForAll(res)

\* the summary with totalChecks taken from this.checks instead of results
ValidationSummaryOfConfigured(res) ==
  LET passedChecks == Len(SelectSeq(res, LAMBDA r : r.success))
  IN  [overallSuccess |-> every(res),
       totalChecks |-> Len(checks),
       passedChecks |-> passedChecks,
       failedChecks |-> Len(res) - passedChecks,
       results |-> res,
       recommendations |-> generateRecommendations(res)]

\* lines 500-513: the summary validate builds from results
ValidationSummaryOf(res) ==
  LET passedChecks == Len(SelectSeq(res, LAMBDA r : r.success))
  IN  [overallSuccess |-> every(res),
       totalChecks |-> Len(res),
       passedChecks |-> passedChecks,
       failedChecks |-> Len(res) - passedChecks,
       results |-> res,
       recommendations |-> generateRecommendations(res)]

\* validate() is called: lines 484-489, and lines 500-517 when there is no
\* check to run
ValidateStarts ==
  /\ vpc # "running"
  /\ results' = <<>>
  /\ vidx' = 1
  /\ IF Len(checks) = 0
     THEN /\ summary' = ValidationSummaryOf(<<>>)
          /\ vpc' = "done"
     ELSE /\ summary' = NoSummary
          /\ vpc' = "running"
  /\ UNCHANGED checks
  /\ UNCHANGED outsideEngine

\* one round of the loop of lines 490-498: runValidationCheck(check), where
\* execSync returns (success) or throws (failure, a timeout included); after
\* the last round, lines 500-517
RunValidationCheck ==
  /\ vpc = "running"
  /\ \E ok \in BOOLEAN :
       LET r == [check |-> checks[vidx], success |-> ok]
           res == Append(results, r)
       IN  /\ results' = res
           /\ IF stopsValidation(r) \/ vidx = Len(checks)
              THEN /\ summary' = ValidationSummaryOf(res)
                   /\ vpc' = "done"
                   /\ vidx' = vidx
              ELSE /\ vidx' = vidx + 1
                   /\ UNCHANGED <<summary, vpc>>
  /\ UNCHANGED checks
  /\ UNCHANGED outsideEngine

\* a ValidationEngine beside an orchestrator that is not called
InitValidate ==
  /\ Init
  /\ config = DefaultConfig
  /\ errors = <<>>
  /\ fileExists(fs, RootA)

NextValidate ==
  \/ AddValidationCheck
  \/ RemoveValidationCheck
  \/ ValidateStarts
  \/ RunValidationCheck

SpecValidate == InitValidate /\ [][NextValidate]_vars

----------------------------------------------------------------------------
(* the compiler run and the two parsers *)

\* most diagnostics in one compiler run
MaxDiagnostics == 2

\* the decimal numeral of n, for n below 100
numeral(n) ==
  IF n < 10 THEN <<DigitChars[n + 1]>>
  ELSE <<DigitChars[(n \div 10) + 1], DigitChars[(n % 10) + 1]>>

\* diagnostics the compiler reports: a path, a line, a column, a code and a
\* message without line breaks
Diagnostics ==
  [file : {<<"a">>, <<"b">>},
   line : {1, 12},
   column : {1},
   code : {<<"TS", "1", "0", "0", "5">>, <<"TS", "2", "3", "0", "7">>,
           <<"TS", "1", "3", "8", "1">>, <<"TS", "2", "7", "2", "2">>, <<"E", "1">>},
   message : {<<"m">>, <<"x", " ", "y">>}]

\* the line '<path>(<line>,<col>): error <CODE>: <message>' for d
diagnosticLine(d) ==
  d.file \o <<"(">> \o numeral(d.line) \o <<",">> \o numeral(d.column)
    \o <<")", ":", " ", "error", " ">> \o d.code \o <<":", " ">> \o d.message

\* the diagnostics ds one per line
RECURSIVE diagnosticLines(_)
diagnosticLines(ds) ==
  IF ds = <<>> THEN <<>>
  ELSE diagnosticLine(Head(ds)) \o <<"\n">> \o diagnosticLines(Tail(ds))

\* execSync('npx tsc --noEmit') throws, and error.stdout holds a line per
\* diagnostic
CompilerReports ==
  /\ ppc = "idle"
  /\ diagnostics' \in SeqsUpTo(Diagnostics, MaxDiagnostics)
  /\ output' = diagnosticLines(diagnostics')
  /\ ppc' = "reported"
  /\ UNCHANGED parsed
  /\ UNCHANGED <<orchestratorVars, returnedHistory, engineVars>>

\* const errors = this.parseTypeScriptErrors(errorOutput)
ParseTypeScriptErrors ==
  /\ ppc = "reported"
  /\ parsed' = parseTypeScriptErrors(output)
  /\ ppc' = "parseTypeScriptErrors"
  /\ UNCHANGED <<diagnostics, output>>
  /\ UNCHANGED <<orchestratorVars, returnedHistory, engineVars>>

\* const errors = this.parseAndCategorizeErrors(errorOutput)
ParseAndCategorizeErrors ==
  /\ ppc = "reported"
  /\ parsed' = parseAndCategorizeErrors(output)
  /\ ppc' = "parseAndCategorizeErrors"
  /\ UNCHANGED <<diagnostics, output>>
  /\ UNCHANGED <<orchestratorVars, returnedHistory, engineVars>>

\* execSync('npx tsc --noEmit --skipLibCheck') returns: the compiler found
\* nothing
CompilerPasses ==
  /\ ppc = "idle"
  /\ ppc' = "passed"
  /\ UNCHANGED <<diagnostics, output, parsed>>
  /\ UNCHANGED <<orchestratorVars, returnedHistory, engineVars>>

\* performFinalValidation() returns, from the try block or from the catch
\* block
PerformFinalValidation ==
  /\ ppc \in {"reported", "passed"}
  /\ parsed' = performFinalValidation(ppc = "reported", output)
  /\ ppc' = IF ppc = "reported" THEN "performFinalValidation: catch"
            ELSE "performFinalValidation: try"
  /\ UNCHANGED <<diagnostics, output>>
  /\ UNCHANGED <<orchestratorVars, returnedHistory, engineVars>>

\* before the compiler run, beside an orchestrator that is not called
InitParse ==
  /\ Init
  /\ config = DefaultConfig
  /\ errors = <<>>
  /\ ~fileExists(fs, RootA)

NextParse ==
  \/ CompilerReports
  \/ CompilerPasses
  \/ ParseTypeScriptErrors
  \/ ParseAndCategorizeErrors
  \/ PerformFinalValidation

SpecParse == InitParse /\ [][NextParse]_vars

----------------------------------------------------------------------------
(* getExecutionHistory and the caller that holds the returned array *)

\* most elements of the array a caller holds when it pushes
MaxArray == 2

\* an ExecutionResult of the caller's own
CallerResult ==
  [phase |-> "caller", success |-> FALSE, message |-> "pushed by the caller",
   fixedCount |-> 0]

\* getExecutionHistory returning this.executionHistory itself
getExecutionHistorySharing == [ref |-> "this.executionHistory", elements |-> <<>>]

\* getExecutionHistory(): [...this.executionHistory], a new array holding the
\* elements of the history
getExecutionHistory == [ref |-> "copy", elements |-> executionHistory]

\* const history = orchestrator.getExecutionHistory(), at any time between
\* two steps of the run
GetExecutionHistory ==
  /\ returnedHistory' = getExecutionHistory
  /\ UNCHANGED <<orchestratorVars, engineVars, parserVars>>

\* the elements of the array the caller holds
held ==
  IF returnedHistory.ref = "copy" THEN returnedHistory.elements ELSE executionHistory

\* the array the caller holds gets the elements a: a write through the
\* caller's reference changes the array object it refers to
callerSets(a) ==
  IF returnedHistory.ref = "copy"
  THEN /\ returnedHistory' = [returnedHistory EXCEPT !.elements = a]
       /\ UNCHANGED executionHistory
  ELSE /\ executionHistory' = a
       /\ UNCHANGED returnedHistory

\* history.push(result) by the caller
CallerPushes ==
  /\ returnedHistory # NoArray
  /\ Len(held) < MaxArray
  /\ callerSets(Append(held, CallerResult))
  /\ UNCHANGED <<config, errors, fs, pre, backupDir, backupFiles, pc, phases, idx,
                 attempt, abandoned, calls, fails, validation, thrown, rollback,
                 restored, result, run, cli, exitCode>>
  /\ UNCHANGED <<engineVars, parserVars>>

\* history.pop() by the caller
CallerPops ==
  /\ returnedHistory # NoArray
  /\ held # <<>>
  /\ callerSets(SubSeq(held, 1, Len(held) - 1))
  /\ UNCHANGED <<config, errors, fs, pre, backupDir, backupFiles, pc, phases, idx,
                 attempt, abandoned, calls, fails, validation, thrown, rollback,
                 restored, result, run, cli, exitCode>>
  /\ UNCHANGED <<engineVars, parserVars>>

\* one call on an instance built with the defaults or with every flag off,
\* src/a.ts and a.ts present, and a caller that reads the history
InitHistory ==
  /\ Init
  /\ config \in {DefaultConfig, BareConfig}
  /\ fileExists(fs, RootA)

NextHistory ==
  \/ CreateBackup
  \/ SkipBackup
  \/ PlanPhases
  \/ InvokeFixer
  \/ FixerResolves
  \/ FixerRejects
  \/ TimerFires
  \/ AbandonedFixerWrites
  \/ FinalValidation
  \/ Complete
  \/ CatchWithRollback
  \/ CatchWithoutRollback
  \/ GetExecutionHistory
  \/ CallerPushes
  \/ CallerPops

SpecHistory == InitHistory /\ [][NextHistory]_vars

----------------------------------------------------------------------------
(* Vocabulary of the properties *)

\* executePhaseWithRetry has returned for the phase named n
Returned(n) == \E i \in 1..Len(executionHistory) : executionHistory[i].phase = n

\* every invocation of the fixer of the phase named n so far has failed
FailedEveryAttempt(n) == calls[n] > 0 /\ fails[n] = calls[n]

\* the phase named n ended failed: its final result has success = false
EndedFailed(n) ==
  \E i \in 1..Len(executionHistory) :
    executionHistory[i].phase = n /\ ~executionHistory[i].success

\* the phases the spec calls required
RequiredPhases == {SyntaxPhase.name, ImportPhase.name}

\* the phases the input calls for: one per root cause that has a fixer and an error
CalledFor ==
  {ph \in {SyntaxPhase, ImportPhase, TypePhase} :
     \E i \in 1..Len(errors) : errors[i].rootCause = ph.rootCause}

----------------------------------------------------------------------------
(* C1 *)

\* C1 (as claimed): with backupEnabled, rollbackOnFailure and no dryRun, once a
\* phase has failed on every attempt and executeOrchestration has returned
\* (no fixer left running by a timer, the restore itself meeting no I/O
\* error), every file named by the run's errors has its pre-run content and
\* the run is not reported as completed.
C1_RollbackExactness ==
  ( /\ pc = "done"
    /\ config.backupEnabled /\ config.rollbackOnFailure /\ ~config.dryRun
    /\ \E n \in PhaseNames : Returned(n) /\ FailedEveryAttempt(n)
    /\ abandoned = {}
    /\ rollback # "failed" )
  => /\ \A f \in ErrorFiles(errors) : fs[f] = pre[f]
     /\ ~result.success

----------------------------------------------------------------------------
(* C2 *)

\* C2: a phase whose fixer failed on every attempt (resolved with success =
\* false, rejected, or ran into the timer) has had its fixer invoked exactly
\* retries + 1 times when executePhaseWithRetry returns, and the returned
\* result has success = false.
C2_RetryBound ==
  \A i \in 1..Len(executionHistory) :
    LET n == executionHistory[i].phase
    IN  FailedEveryAttempt(n)
          => /\ calls[n] = PhaseNamed(n).retries + 1
             /\ ~executionHistory[i].success

\* the Syntax phase has returned after three failed invocations, one of them
\* cut off by the timer, the last one resolving with success = false
C2_Witness ==
  /\ Returned(SyntaxPhase.name)
  /\ FailedEveryAttempt(SyntaxPhase.name)
  /\ calls[SyntaxPhase.name] = SyntaxPhase.retries + 1
  /\ SyntaxPhase.name \in abandoned
  /\ executionHistory[1].message = "Not fixed"

----------------------------------------------------------------------------
(* C3 *)

PriorityOf(n) == PhaseNamed(n).priority

\* C3: whatever the order of the input errors, the final results in the
\* history are in non-decreasing priority order, only phases the input calls
\* for are run, and a fixer is invoked for a phase only after every phase of
\* lower priority that the input calls for has returned its final result.
C3_PhaseOrder ==
  /\ \A i, j \in 1..Len(executionHistory) :
       i < j => PriorityOf(executionHistory[i].phase) <= PriorityOf(executionHistory[j].phase)
  /\ LET calledFor == CalledFor
     IN  \A n \in PhaseNames :
           calls[n] > 0 =>
             /\ PhaseNamed(n) \in calledFor
             /\ \A m \in calledFor : m.priority < PriorityOf(n) => Returned(m.name)

\* the input lists a type error before a syntax error, and the Type fixer is
\* running after the Syntax phase has returned
C3_Witness ==
  /\ Len(errors) = 2
  /\ errors[1].rootCause = "TYPE" /\ errors[2].rootCause = "SYNTAX"
  /\ pc = "await" /\ CurrentPhase.name = TypePhase.name
  /\ Returned(SyntaxPhase.name)

----------------------------------------------------------------------------
(* C4 *)

\* C4: under dryRun no project file changes, no backup directory and no
\* backup file exists, and nothing is restored.
C4_DryRun ==
  config.dryRun =>
    /\ fs = pre
    /\ ~backupDir
    /\ \A n \in BackupNames : backupFiles[n] = Absent
    /\ restored = {} /\ rollback = "none"

\* a dry run with backupEnabled over errors that name existing files, which
\* has gone through the backup step and two phases and has returned
C4_Witness ==
  /\ config.dryRun /\ config.backupEnabled /\ config.rollbackOnFailure
  /\ pc = "done"
  /\ Len(executionHistory) = 2
  /\ \A f \in ErrorFiles(errors) : fileExists(pre, f)

----------------------------------------------------------------------------
(* C5 *)

\* C5 (as claimed): when backup creation fails, no fixer is invoked and no
\* project file's content is changed by the run.
C5_BackupFailureAborts ==
  thrown = "Backup Creation failed" =>
    /\ \A n \in PhaseNames : calls[n] = 0
    /\ fs = pre

----------------------------------------------------------------------------
(* C6 *)

\* C6 (as claimed): with backupEnabled and no dryRun, while a fixer is invoked
\* every existing file named by its phase's errors has a backup copy with the
\* file's pre-run content, and distinct paths have distinct copies.
C6_BackupBeforeFix ==
  (pc = "await" /\ config.backupEnabled /\ ~config.dryRun) =>
    LET files == {f \in PhaseFiles(errors, CurrentPhase) : fileExists(pre, f)}
    IN  /\ \A f \in files : backupFiles[basename(f)] = pre[f]
        /\ \A f, g \in files : f # g => basename(f) # basename(g)

----------------------------------------------------------------------------
(* C7 *)

\* C7 (as claimed): a run whose backup step did not fail is reported as
\* completed exactly when no required phase (Syntax, Import) ended failed.
C7_TerminalState ==
  (pc = "done" /\ thrown # "Backup Creation failed") =>
    (result.success <=> ~\E n \in RequiredPhases : EndedFailed(n))

----------------------------------------------------------------------------
(* C8 *)

\* C8 (as claimed): with rollbackOnFailure and backupEnabled, once a required
\* phase has failed all its attempts no fixer of a later phase is invoked, and
\* when the run returns performRollback has run.
C8_RequiredFailureRollsBack ==
  (config.rollbackOnFailure /\ config.backupEnabled) =>
    \A n \in RequiredPhases :
      EndedFailed(n) =>
        /\ \A m \in PhaseNames : PriorityOf(m) > PriorityOf(n) => calls[m] = 0
        /\ pc = "done" => rollback # "none"

----------------------------------------------------------------------------
(* C9 *)

\* C9 (as claimed): when the Type phase has failed all its attempts, or any
\* phase has while rollbackOnFailure = false, the run is not aborted and no
\* file is restored.
C9_NonRequiredFailureContinues ==
  \A n \in PhaseNames :
    (EndedFailed(n) /\ (n = TypePhase.name \/ ~config.rollbackOnFailure)) =>
      /\ thrown = "none"
      /\ rollback = "none" /\ restored = {}

----------------------------------------------------------------------------
(* C10 *)

\* C10 (as claimed): when the restore failed during rollback, the returned
\* result differs from the one the run returns after a successful rollback,
\* which is FailureResult(thrown), and it does not report completion.
C10_RollbackFailureSurfaced ==
  (pc = "done" /\ rollback = "failed") =>
    /\ result # FailureResult(thrown)
    /\ ~result.success

----------------------------------------------------------------------------
(* C11 *)

\* C11 (as claimed): a call of executeOrchestration on an empty list of errors
\* invokes no fixer, creates no backup directory and no backup file, and
\* returns a completed result with fixedCount = 0.
C11_NoOpRun ==
  errors = <<>> =>
    /\ \A n \in PhaseNames : calls[n] = 0
    /\ ~backupDir
    /\ \A n \in BackupNames : backupFiles[n] = Absent
    /\ pc = "done" => (result.success /\ result.fixedCount = 0)

----------------------------------------------------------------------------
(* C13 *)

\* C13 (as claimed): no fixer is invoked (first attempt, retry or next phase)
\* and no rollback runs while a fixer invocation of the run is still running,
\* so at most one invocation can write files at any moment.
C13_SingleActiveMutator ==
  /\ pc = "await" => abandoned = {}
  /\ rollback # "none" => abandoned = {}

----------------------------------------------------------------------------
(* C17 *)

\* C17: once the final validation has run, whatever its outcome, no file has
\* been restored from the backup, performRollback has not run and nothing was
\* thrown, for every configuration.
C17_ValidationNeverRollsBack ==
  validation # "none" =>
    /\ restored = {}
    /\ rollback = "none"
    /\ thrown = "none"

\* the final validation failed in a returned run with backupEnabled,
\* rollbackOnFailure and continueOnValidationFailure = false whose backup
\* holds a file and whose phase succeeded and rewrote a file
C17_Witness ==
  /\ pc = "done" /\ validation = "fail"
  /\ config.backupEnabled /\ config.rollbackOnFailure
  /\ ~config.continueOnValidationFailure /\ ~config.dryRun
  /\ backupDir /\ \E n \in BackupNames : backupFiles[n] # Absent
  /\ Len(executionHistory) > 0
  /\ \A i \in 1..Len(executionHistory) : executionHistory[i].success
  /\ fs # pre

----------------------------------------------------------------------------
(* C18 *)

\* C18 (as claimed): with validationEnabled, the value returned by a run whose
\* final validation failed differs from the value the same run returns when
\* its final validation passes, which is SuccessResult(executionHistory).
C18_ValidationOutcomeAttached ==
  (pc = "done" /\ config.validationEnabled /\ validation = "fail") =>
    result # SuccessResult(executionHistory)

----------------------------------------------------------------------------
(* C12 *)

\* the results the current call pushed, once all its phases have returned
ThisCall ==
  SubSeq(executionHistory, Len(executionHistory) - Len(phases) + 1, Len(executionHistory))

\* C12 (as claimed): every call that returns a completed result, a second call
\* on the same instance included, returns as fixedCount the sum of the
\* fixedCount values of the phases that call executed.
C12_FixedCountPerRun ==
  (pc = "done" /\ result.success) =>
    result.fixedCount = totalFixed(ThisCall)

----------------------------------------------------------------------------
(* C19 *)

\* C19 (as claimed): when the 'fix' command has exited with code 0, either no
\* error was found and nothing was orchestrated, or executeOrchestration
\* returned a completed result; a result with success = false gives a
\* non-zero exit code.
C19_ExitCode ==
  (cli = "exited" /\ exitCode = 0) =>
    \/ errors = <<>> /\ result = NoResult
    \/ result # NoResult /\ result.success

----------------------------------------------------------------------------
(* C14 *)

\* C14: when no fixer ever settles and set timers fire, every phase whose
\* fixer has been invoked eventually has a final result with success = false,
\* returned after exactly retries + 1 invocations, each counted as failed.
C14_TimeoutLiveness ==
  \A n \in PhaseNames :
    (calls[n] > 0) ~> /\ EndedFailed(n)
                      /\ calls[n] = PhaseNamed(n).retries + 1
                      /\ fails[n] = calls[n]

\* the Import phase has returned its failure after two invocations that the
\* timer cut off, and its fixer is still running
C14_Witness ==
  /\ EndedFailed(ImportPhase.name)
  /\ calls[ImportPhase.name] = ImportPhase.retries + 1
  /\ fails[ImportPhase.name] = calls[ImportPhase.name]
  /\ ImportPhase.name \in abandoned
  /\ executionHistory[Len(executionHistory)].message = "Phase failed with error"

----------------------------------------------------------------------------
(* C15 *)

\* C15: validate runs the configured checks in list order; a failing required
\* check is the last check run, so the checks after it have no result and
\* are not counted in failedChecks; nothing else ends the loop early, so a
\* failing check that is not required is followed by the next check.
C15_ValidationFailFast ==
  /\ Len(results) <= Len(checks)
  /\ \A i \in 1..Len(results) : results[i].check = checks[i]
  /\ \A i \in 1..Len(results) :
       (~results[i].success /\ results[i].check.required) => i = Len(results)
  /\ vpc = "done" =>
       /\ Len(results) < Len(checks) =>
            /\ ~results[Len(results)].success
            /\ results[Len(results)].check.required
       /\ summary.results = results
       /\ summary.failedChecks =
            Cardinality({i \in 1..Len(results) : ~results[i].success})

\* validate has returned after a failing check that is not required, a later
\* failing required check, and with a configured check left that was not run
C15_Witness ==
  /\ vpc = "done"
  /\ Len(results) < Len(checks)
  /\ \E i \in 1..Len(results) :
       /\ i < Len(results)
       /\ ~results[i].success /\ ~results[i].check.required
  /\ ~results[Len(results)].success /\ results[Len(results)].check.required

----------------------------------------------------------------------------
(* C16 *)

\* C16: the summary validate returns has overallSuccess = false exactly when
\* one of the executed checks failed and is required.
C16_ValidationAggregation ==
  vpc = "done" =>
    (summary.overallSuccess <=>
       ~\E i \in 1..Len(summary.results) :
          ~summary.results[i].success /\ summary.results[i].check.required)

\* a summary with overallSuccess = true although an executed check failed
\* (one that is not required), after a required check passed
C16_Witness ==
  /\ vpc = "done"
  /\ summary.overallSuccess
  /\ \E i \in 1..Len(results) : ~results[i].success /\ ~results[i].check.required
  /\ \E i \in 1..Len(results) : results[i].success /\ results[i].check.required

----------------------------------------------------------------------------
(* C20 *)

\* the five fields of a record a parser returned agree with the diagnostic d
Recovers(e, d) ==
  /\ e.file = d.file
  /\ e.line = d.line
  /\ e.column = d.column
  /\ e.code = d.code
  /\ e.message = d.message

\* C20 (as claimed): from the output that holds N diagnostics one per line,
\* whatever their codes, each parser returns exactly N records, in the order
\* of the lines, each with the file, line, column, code and message of its
\* diagnostic.
C20_ParseRoundTrip ==
  ppc \in {"parseTypeScriptErrors", "parseAndCategorizeErrors"} =>
    /\ Len(parsed) = Len(diagnostics)
    /\ \A i \in 1..Len(parsed) : Recovers(parsed[i], diagnostics[i])

----------------------------------------------------------------------------
(* C21 *)

\* the root-cause class a category of categorizeError belongs to, 1 to 5 for
\* syntax, import, type, unused, other
ClassOf(category) ==
  IF category \in {"syntax-comma-expected", "syntax-identifier-expected",
                   "declaration-statement-expected", "jsx-closing-tag-missing"} THEN 1
  ELSE IF category = "import-resolution" THEN 2
  ELSE IF category \in {"implicit-any", "property-missing"} THEN 3
  ELSE IF category = "unused-variable" THEN 4
  ELSE 5

\* C21 (as claimed): priority is derived from the category: any two analyzed
\* errors given the same category have the same priority, and an error of an
\* earlier class (syntax, import, type, unused, other) has a smaller priority
\* than an error of a later class.
C21_PriorityFromCategory ==
  ppc = "parseAndCategorizeErrors" =>
    \A i, j \in 1..Len(parsed) :
      /\ parsed[i].category = parsed[j].category
           => parsed[i].priority = parsed[j].priority
      /\ ClassOf(parsed[i].category) < ClassOf(parsed[j].category)
           => parsed[i].priority < parsed[j].priority

----------------------------------------------------------------------------
(* C22 *)

\* createExecutionPhases has returned and its phases are in use
Planned == pc \in {"loop", "await", "finish"}

\* the positions of the planned phases that are for the root cause c
PhasesFor(c) == {i \in 1..Len(phases) : phases[i].rootCause = c}

\* C22 (as claimed): the planner emits exactly one phase for each root cause
\* that has at least one error, and none for a root cause without errors.
C22_OnePhasePerCategory ==
  Planned =>
    \A c \in RootCauses :
      Cardinality(PhasesFor(c)) =
        IF Len(groupErrorsByRootCause(errors, c)) > 0 THEN 1 ELSE 0

----------------------------------------------------------------------------
(* C23 *)

\* the entries of the history that are results of the phase named n
EntriesOf(n) == {i \in 1..Len(executionHistory) : executionHistory[i].phase = n}

\* C23 (as claimed): the history holds one result per phase attempt: once the
\* call has returned, each phase has as many entries as its fixer was invoked.
C23_HistoryPerAttempt ==
  pc = "done" => \A n \in PhaseNames : Cardinality(EntriesOf(n)) = calls[n]

----------------------------------------------------------------------------
(* C24 *)

\* the call ended in the catch block after the phase at idx failed, and
\* performRollback ran
RolledBackAfterPhase ==
  /\ pc = "done"
  /\ thrown = "Phase failed"
  /\ rollback # "none"

\* C24 (as claimed): when a phase fails and rollback occurs, only files in
\* that phase's file set are rewritten by the rollback.
C24_PhaseScopedRollback ==
  RolledBackAfterPhase => restored \subseteq PhaseFiles(errors, CurrentPhase)

----------------------------------------------------------------------------
(* C25 *)

\* the path f comes before the path g; the paths of Diagnostics are single
\* letters
PathBefore(f, g) == f = <<"a">> /\ g = <<"b">>

\* the analyzed error d may stand before e: smaller priority, or equal
\* priority and smaller path, or equal priority and path and no larger line
MayPrecede(d, e) ==
  \/ d.priority < e.priority
  \/ /\ d.priority = e.priority
     /\ \/ PathBefore(d.file, e.file)
        \/ d.file = e.file /\ d.line <= e.line

\* C25 (as claimed): the analyzed errors are ordered by priority, and errors
\* of equal priority by file path and then by line number.
C25_DeterministicTieBreak ==
  ppc = "parseAndCategorizeErrors" =>
    \A i, j \in 1..Len(parsed) : i < j => MayPrecede(parsed[i], parsed[j])

----------------------------------------------------------------------------
(* C26 *)

\* C26: the history changes only when a phase finishes, and then by getting
\* that phase's result at its end: every step leaves the entries already
\* present unchanged and in their positions, the entries stand in the order in
\* which the phases finished, and pushing to or popping from the array
\* getExecutionHistory returned leaves the history as it is.
C26_AppendOnlyHistory ==
  [][executionHistory' # executionHistory =>
       /\ pc = "await"
       /\ Len(executionHistory') = Len(executionHistory) + 1
       /\ SubSeq(executionHistory', 1, Len(executionHistory)) = executionHistory
       /\ executionHistory'[Len(executionHistory')].phase = CurrentPhase.name]_vars

\* two phases have finished, and the caller has pushed to the array it got
C26_Witness ==
  /\ Len(executionHistory) = 2
  /\ returnedHistory.ref = "copy"
  /\ \E i \in 1..Len(returnedHistory.elements) :
       returnedHistory.elements[i] = CallerResult

----------------------------------------------------------------------------
(* C27 *)

\* C27: the fixer of a phase is invoked at most retries + 1 times and, once
\* the phase has its result, at least once; an attempt is made only when
\* every earlier attempt of the phase has failed; and the phase's result has
\* success = true exactly when its last attempt succeeded, which then was the
\* first to succeed.
C27_StopAtFirstSuccess ==
  \A n \in PhaseNames :
    /\ calls[n] <= PhaseNamed(n).retries + 1
    /\ calls[n] <= fails[n] + 1
    /\ \A i \in 1..Len(executionHistory) :
         executionHistory[i].phase = n =>
           /\ calls[n] >= 1
           /\ executionHistory[i].success = (fails[n] = calls[n] - 1)

\* the Syntax phase has its result, a success on the third attempt after two
\* failed ones, and the Import phase has been started
C27_Witness ==
  /\ Len(executionHistory) >= 1
  /\ executionHistory[1].phase = SyntaxPhase.name
  /\ executionHistory[1].success
  /\ calls[SyntaxPhase.name] = 3
  /\ fails[SyntaxPhase.name] = 2
  /\ calls[ImportPhase.name] >= 1

----------------------------------------------------------------------------
(* C28 *)

\* the kind of check a recommendation is for
KindOf(recommendation) ==
  CASE recommendation = FixSyntaxFirst -> "syntax"
    [] recommendation = RunESLintFix -> "lint"
    [] recommendation = BuildIssues -> "build"
    [] OTHER -> "none"

\* C28 (as claimed): for every executed check that failed, of any kind, the
\* summary holds a recommendation for that check's kind, and the 'All
\* validation checks passed' recommendation is returned only when no executed
\* check failed.
C28_RecommendationsFollowFailures ==
  vpc = "done" =>
    /\ \A i \in 1..Len(results) :
         ~results[i].success =>
           \E k \in 1..Len(summary.recommendations) :
             KindOf(summary.recommendations[k]) = results[i].check.type
    /\ (\E k \in 1..Len(summary.recommendations) :
          summary.recommendations[k] = AllChecksPassed)
         => \A i \in 1..Len(results) : results[i].success

----------------------------------------------------------------------------
(* C29 *)

\* C29 (as claimed): performFinalValidation returns success = true only when
\* the compile command exited without error; when the command fails and its
\* output holds N >= 1 diagnostic lines, the result has success = false and
\* errorCount = N.
C29_FinalValidationReflectsCompiler ==
  ppc = "performFinalValidation: catch" =>
    /\ ~parsed.success
    /\ Len(diagnostics) >= 1 => parsed.errorCount = Len(diagnostics)

----------------------------------------------------------------------------
(* C30 *)

\* the positions of the summary's results that are failed required checks
FailedRequired ==
  {i \in 1..Len(summary.results) :
     ~summary.results[i].success /\ summary.results[i].check.required}

\* C30: whatever checks are configured and whatever the outcomes, the summary
\* validate returns has totalChecks = passedChecks + failedChecks = number of
\* results <= number of configured checks, passedChecks counting the
\* successes; the results are those of the first configured checks in their
\* order; at most one result is a failed required check, and it is the last.
C30_SummaryInvariants ==
  vpc = "done" =>
    /\ summary.totalChecks = summary.passedChecks + summary.failedChecks
    /\ summary.totalChecks = Len(summary.results)
    /\ summary.passedChecks =
         Cardinality({i \in 1..Len(summary.results) : summary.results[i].success})
    /\ Len(summary.results) <= Len(checks)
    /\ \A i \in 1..Len(summary.results) : summary.results[i].check = checks[i]
    /\ Cardinality(FailedRequired) <= 1
    /\ \A i \in FailedRequired : i = Len(summary.results)

\* validate has returned for a list that lost TypeScript Compilation and got
\* custom checks: a check passed, one that is not required failed, a required
\* one failed after it, and a configured check was left out
C30_Witness ==
  /\ vpc = "done"
  /\ Len(checks) >= 1
  /\ checks[1] # TypeScriptCompilation
  /\ \E i \in 1..Len(checks) : checks[i] \in CustomChecks
  /\ Len(summary.results) < Len(checks)
  /\ summary.passedChecks >= 1
  /\ summary.failedChecks >= 2
  /\ FailedRequired # {}

====
